---------------------------- MODULE Spec2Model ----------------------------
(***************************************************************************)
(* State-machine model of pcdsdevices/signal.py: AggregateSignal,          *)
(* AvgSignal, _OptionalEpicsSignal and UnitConversionDerivedSignal.  Each  *)
(* class has its own specification (SpecAggregate, SpecAvg, SpecOptional,  *)
(* SpecUnit); the variables of the other classes stay at their initial     *)
(* values.                                                                 *)
(***************************************************************************)
EXTENDS Integers, Sequences, FiniteSets, TLC

(***************************************************************************)
(* Bounds of the model.                                                    *)
(***************************************************************************)
NumSources == 2
MaxVal == 1
MaxSubs == 2
MaxAvg == 2
MaxPushes == 3
MaxUnitVal == 1
MaxOffset == 1

VARIABLES
    \* ---- AggregateSignal ----
    srcValue,       \* current value of every source signal (signal.get())
    srcHandlers,    \* per source: registrations of _run_sub_value
    ownSubs,        \* callbacks registered on this signal, per event type
    _cache,         \* self._cache
    _readback,      \* self._readback
    _has_subscribed,\* self._has_subscribed
    _lock,          \* self._lock (RLock): owner and recursion count
    _update_only_on_change, \* class attribute
    pc,             \* position of every thread
    local,          \* local variables of every thread
    latest,         \* history: per source, the value last pushed or last read
    fullGet,        \* history: some get() has run to its end
    \* ---- AvgSignal ----
    rawConnected,   \* raw_sig is connected
    rawValue,       \* raw_sig's value: <<>> before the first one, else <<v>>
    rawSubscribed,  \* _update_avg is registered on raw_sig
    _avg,           \* self._avg
    index,          \* self.index
    values,         \* self.values: a slot is <<>> (nan) or <<v>>
    avgReadback,    \* the signal's own value, set by self.put
    _con,           \* self._con
    avg_lock,       \* AvgSignal's self._lock
    apc,            \* position of every thread
    alocal,         \* local variables of every thread
    hist,           \* history: values written since the buffer was last allocated
    dropped,        \* history: the last averages change discarded values
    changed,        \* history: averages was set after construction
    zeroOnly,       \* history: averages has been 0 since construction
    everWritten,    \* history: some value was written to the buffer
    published,      \* history: some mean was put
    avgError,       \* history: some _update_avg call ended in IndexError
    \* ---- _OptionalEpicsSignal ----
    remoteConnected,\* the EpicsSignal's connection state
    remoteHasMeta,  \* the EpicsSignal has run its SUB_META subscriptions before
    remoteValue,    \* the EpicsSignal's value: <<>> before the first one, else <<v>>
    metaSubscribed, \* _epics_meta_update is registered on the EpicsSignal
    valueSubs,      \* registrations of _epics_value_update on the EpicsSignal
    _saw_connection,\* self._saw_connection: <<>> while the attribute is not set
    _metadata,      \* self._metadata['connected']: <<>> until first updated
    localValue,     \* the Signal's own value (Signal.put)
    opc,            \* position of every thread
    olocal,         \* local variables of every thread
    connectedHandled, \* history: a connected metadata event has been handled
    sawEver,        \* history: _saw_connection has been True
    optError,       \* history: a callback ended in AttributeError
    _epics_signal,  \* self._epics_signal: TRUE while it holds the EpicsSignal
    selfDestroyed,  \* Signal.destroy has run on the proxy
    remoteDestroyed,\* the EpicsSignal has been destroyed
    lastCall,       \* <<>> or the last proxied call of the user and its result
    valueEvent,     \* value of the proxy's last VALUE event, <<>> before any
    connectedDelivered, \* history: a connected metadata event reached the callback
    \* ---- UnitConversionDerivedSignal ----
    derived_units,  \* self.derived_units
    original_units, \* self.original_units: <<>> (None) or <<unit>>
    _user_offset,   \* self._user_offset: <<>> (None) or <<offset>>
    derivedConnected, \* self._derived_from.connected
    derivedValue,   \* self._derived_from.get(): <<>> (None) or <<value>>
    unitReadback,   \* value of the last VALUE event of the derived signal
    suppliedUnits,  \* history: original_units as given to __init__
    lastConv,       \* <<>> or the last call of the user and its outcome
    lastMeta        \* <<>> or the last metadata event of the source

aggVars == <<srcValue, srcHandlers, ownSubs, _cache, _readback,
             _has_subscribed, _lock, _update_only_on_change, pc, local,
             latest, fullGet>>

avgVars == <<rawConnected, rawValue, rawSubscribed, _avg, index, values,
             avgReadback, _con, avg_lock, apc, alocal, hist, dropped, changed,
             zeroOnly, everWritten, published, avgError>>

optVars == <<remoteConnected, remoteHasMeta, remoteValue, metaSubscribed,
             valueSubs, _saw_connection, _metadata, localValue, opc, olocal,
             connectedHandled, sawEver, optError, _epics_signal,
             selfDestroyed, remoteDestroyed, lastCall, connectedDelivered,
             valueEvent>>

\* the part of the proxy's state that only the user's calls change
optUserVars == <<_epics_signal, selfDestroyed, remoteDestroyed, lastCall>>

unitVars == <<derived_units, original_units, _user_offset, derivedConnected,
              derivedValue, unitReadback, suppliedUnits, lastConv, lastMeta>>

vars == <<aggVars, avgVars, optVars, unitVars>>

\* the variables of the other classes
aggOthers == <<avgVars, optVars, unitVars>>
avgOthers == <<aggVars, optVars, unitVars>>
optOthers == <<aggVars, avgVars, unitVars>>
unitOthers == <<aggVars, avgVars, optVars>>

---------------------------------------------------------------------------
(***************************************************************************)
(* AggregateSignal                                                         *)
(***************************************************************************)
Sources == 1..NumSources
Values == 0..MaxVal
UserThreads == {"u1"}
HandlerThreads == {"h1", "h2"}
Threads == UserThreads \cup HandlerThreads
NoThread == "none"
NoEvent == <<>>
EventTypes == {"value", "meta"}

\* self._sub_signals: the sources, in list order
_sub_signals == [i \in 1..NumSources |-> i]

RECURSIVE SumOver(_, _)
SumOver(c, S) ==
    IF S = {} THEN 0
    ELSE LET x == CHOOSE y \in S : TRUE
         IN  c[x] + SumOver(c, S \ {x})

\* _calc_readback of a concrete subclass: the sum of the cached values
_calc_readback(c) == SumOver(c, DOMAIN c)

\* faulty variant of CacheStore: an entry already cached is not overwritten
CacheStore_KeepOld(c, s, v) ==
    [x \in (DOMAIN c) \cup {s} |-> IF x \in DOMAIN c THEN c[x] ELSE v]

\* self._cache[signal] = value
CacheStore(c, s, v) ==
    [x \in (DOMAIN c) \cup {s} |-> IF x = s THEN v ELSE c[x]]

\* history of the values seen per source: h with source s now seen at value v
Observed(h, s, v) ==
    [x \in (DOMAIN h) \cup {s} |-> IF x = s THEN v ELSE h[x]]

\* threading.RLock
FreeLock == [owner |-> NoThread, count |-> 0]
\* faulty variant of CanAcquire: the lock excludes nobody
CanAcquire_NoExclusion(l, t) == TRUE

CanAcquire(l, t) == l.owner \in {NoThread, t}
Acquire(l, t) == [owner |-> t, count |-> l.count + 1]
Release(l) ==
    IF l.count <= 1 THEN FreeLock ELSE [owner |-> l.owner, count |-> l.count - 1]

\* faulty variant of ShouldEmit: the flag is ignored
ShouldEmit_IgnoreFlag(value, old_value, only_on_change) ==
    value # old_value

\* value != old_value or not self._update_only_on_change
ShouldEmit(value, old_value, only_on_change) ==
    value # old_value \/ ~only_on_change

\* faulty variant of FirstValueSubscription: no subscription sets up the sources
FirstValueSubscription_Never(event_type, has_subscribed) ==
    FALSE

\* event_type in (None, self.SUB_VALUE) and not self._has_subscribed
FirstValueSubscription(event_type, has_subscribed) ==
    event_type = "value" /\ ~has_subscribed

NoReads == [s \in Sources |-> 0]
IdleLocal == [sig |-> 0, value |-> 0, old_value |-> 0, i |-> 0, ret |-> "idle",
              event_type |-> "value", reads |-> NoReads, event |-> NoEvent,
              wasEmpty |-> FALSE, full |-> FALSE]

AggStart ==
    /\ srcValue \in [Sources -> Values]
    /\ srcHandlers = [s \in Sources |-> 0]
    /\ ownSubs = [e \in EventTypes |-> 0]
    /\ _cache = <<>>
    /\ _readback = 0
    /\ _has_subscribed = FALSE
    /\ _lock = FreeLock
    /\ _update_only_on_change \in BOOLEAN
    /\ pc = [t \in Threads |-> "idle"]
    /\ local = [t \in Threads |-> IdleLocal]
    /\ latest = <<>>
    /\ fullGet = FALSE

\* A source signal changes value; every registration of _run_sub_value on it
\* is called, each in a callback thread: _run_sub_value(obj=s, value=v)
SourceChange(s, v, H) ==
    /\ UNCHANGED aggOthers
    /\ H \subseteq {t \in HandlerThreads : pc[t] = "idle"}
    /\ Cardinality(H) = srcHandlers[s]
    /\ srcValue' = [srcValue EXCEPT ![s] = v]
    /\ local' = [t \in Threads |->
                    IF t \in H
                    THEN [IdleLocal EXCEPT !.sig = s, !.value = v, !.full = fullGet]
                    ELSE local[t]]
    /\ pc' = [t \in Threads |-> IF t \in H THEN "run_acquire" ELSE pc[t]]
    /\ UNCHANGED <<srcHandlers, ownSubs, _cache, _readback, _has_subscribed,
                   _lock, _update_only_on_change, latest, fullGet>>

\* subscribe: super().subscribe(cb, ...) and the test of line 184
subscribe(t, et) ==
    /\ UNCHANGED aggOthers
    /\ t \in UserThreads
    /\ pc[t] = "idle"
    /\ ownSubs["value"] + ownSubs["meta"] < MaxSubs
    /\ ownSubs' = [ownSubs EXCEPT ![et] = @ + 1]
    /\ local' = [local EXCEPT ![t] = [IdleLocal EXCEPT !.event_type = et,
                                                        !.i = 1,
                                                        !.ret = "sub_return",
                                                        !.wasEmpty = (_cache = <<>>)]]
    /\ pc' = [pc EXCEPT ![t] =
                 IF FirstValueSubscription(et, _has_subscribed)
                 THEN "sub_sources" ELSE "sub_return"]
    /\ UNCHANGED <<srcValue, srcHandlers, _cache, _readback,
                   _has_subscribed, _lock, _update_only_on_change, latest,
                   fullGet>>

\* subscribe: signal.subscribe(self._run_sub_value, run=False), one source a step;
\* after the last one, self.get() is called
subscribe_sources(t) ==
    /\ UNCHANGED aggOthers
    /\ pc[t] = "sub_sources"
    /\ LET s == _sub_signals[local[t].i]
       IN  srcHandlers' = [srcHandlers EXCEPT ![s] = @ + 1]
    /\ local' = [local EXCEPT ![t].i = @ + 1]
    /\ pc' = [pc EXCEPT ![t] =
                 IF local[t].i = NumSources THEN "get_acquire" ELSE "sub_sources"]
    /\ UNCHANGED <<srcValue, ownSubs, _cache, _readback,
                   _has_subscribed, _lock, _update_only_on_change, latest,
                   fullGet>>

\* subscribe: return cid
subscribe_return(t) ==
    /\ UNCHANGED aggOthers
    /\ pc[t] = "sub_return"
    /\ pc' = [pc EXCEPT ![t] = "idle"]
    /\ local' = [local EXCEPT ![t] = IdleLocal]
    /\ UNCHANGED <<srcValue, srcHandlers, ownSubs, _cache, _readback,
                   _has_subscribed, _lock, _update_only_on_change, latest,
                   fullGet>>

\* an explicit get() by a user thread
get(t) ==
    /\ UNCHANGED aggOthers
    /\ t \in UserThreads
    /\ pc[t] = "idle"
    /\ local' = [local EXCEPT ![t] = [IdleLocal EXCEPT !.ret = "idle"]]
    /\ pc' = [pc EXCEPT ![t] = "get_acquire"]
    /\ UNCHANGED <<srcValue, srcHandlers, ownSubs, _cache, _readback,
                   _has_subscribed, _lock, _update_only_on_change, latest,
                   fullGet>>

\* get: with self._lock
get_acquire(t) ==
    /\ UNCHANGED aggOthers
    /\ pc[t] = "get_acquire"
    /\ CanAcquire(_lock, t)
    /\ _lock' = Acquire(_lock, t)
    /\ local' = [local EXCEPT ![t].i = 1]
    /\ pc' = [pc EXCEPT ![t] = "get_read"]
    /\ UNCHANGED <<srcValue, srcHandlers, ownSubs, _cache, _readback,
                   _has_subscribed, _update_only_on_change, latest, fullGet>>

\* get: self._cache[signal] = signal.get(), one source a step
get_read(t) ==
    /\ UNCHANGED aggOthers
    /\ pc[t] = "get_read"
    /\ LET s == _sub_signals[local[t].i]
       IN  /\ _cache' = CacheStore(_cache, s, srcValue[s])
           /\ latest' = Observed(latest, s, srcValue[s])
           /\ local' = [local EXCEPT ![t].i = @ + 1,
                                     ![t].reads[s] = @ + 1]
    /\ pc' = [pc EXCEPT ![t] =
                 IF local[t].i = NumSources THEN "get_update" ELSE "get_read"]
    /\ UNCHANGED <<srcValue, srcHandlers, ownSubs, _readback,
                   _has_subscribed, _lock, _update_only_on_change, fullGet>>

\* get: self._update_state()
get_update(t) ==
    /\ UNCHANGED aggOthers
    /\ pc[t] = "get_update"
    /\ CanAcquire(_lock, t)
    /\ _readback' = _calc_readback(_cache)
    /\ pc' = [pc EXCEPT ![t] = "get_release"]
    /\ UNCHANGED <<srcValue, srcHandlers, ownSubs, _cache,
                   _has_subscribed, _lock, _update_only_on_change, local, latest,
                   fullGet>>

\* get: return self._readback, leaving the with block
get_release(t) ==
    /\ UNCHANGED aggOthers
    /\ pc[t] = "get_release"
    /\ local' = [local EXCEPT ![t].value = _readback]
    /\ _lock' = Release(_lock)
    /\ fullGet' = TRUE
    /\ pc' = [pc EXCEPT ![t] = local[t].ret]
    /\ UNCHANGED <<srcValue, srcHandlers, ownSubs, _cache, _readback,
                   _has_subscribed, _update_only_on_change, latest>>

\* _run_sub_value: with self._lock: old_value = self._readback
_run_sub_value(t) ==
    /\ UNCHANGED aggOthers
    /\ pc[t] = "run_acquire"
    /\ CanAcquire(_lock, t)
    /\ _lock' = Acquire(_lock, t)
    /\ local' = [local EXCEPT ![t].old_value = _readback]
    /\ pc' = [pc EXCEPT ![t] = "insert_value"]
    /\ UNCHANGED <<srcValue, srcHandlers, ownSubs, _cache, _readback,
                   _has_subscribed, _update_only_on_change, latest, fullGet>>

\* _insert_value: with self._lock: self._cache[signal] = value
_insert_value(t) ==
    /\ UNCHANGED aggOthers
    /\ pc[t] = "insert_value"
    /\ CanAcquire(_lock, t)
    /\ _lock' = Acquire(_lock, t)
    /\ _cache' = CacheStore(_cache, local[t].sig, local[t].value)
    /\ latest' = Observed(latest, local[t].sig, local[t].value)
    /\ pc' = [pc EXCEPT ![t] = "update_state"]
    /\ UNCHANGED <<srcValue, srcHandlers, ownSubs, _readback,
                   _has_subscribed, _update_only_on_change, local, fullGet>>

\* _insert_value: self._update_state(); return self._readback
_update_state(t) ==
    /\ UNCHANGED aggOthers
    /\ pc[t] = "update_state"
    /\ CanAcquire(_lock, t)
    /\ _readback' = _calc_readback(_cache)
    /\ local' = [local EXCEPT ![t].value = _calc_readback(_cache)]
    /\ _lock' = Release(_lock)
    /\ pc' = [pc EXCEPT ![t] = "run_emit"]
    /\ UNCHANGED <<srcValue, srcHandlers, ownSubs, _cache,
                   _has_subscribed, _update_only_on_change, latest, fullGet>>

\* _run_sub_value: if value != old_value or not ...: self._run_subs(...)
run_emit(t) ==
    /\ UNCHANGED aggOthers
    /\ pc[t] = "run_emit"
    /\ local' = [local EXCEPT ![t].event =
                    IF ShouldEmit(local[t].value, local[t].old_value,
                                  _update_only_on_change)
                    THEN <<[value |-> local[t].value,
                           old_value |-> local[t].old_value]>>
                    ELSE NoEvent]
    /\ pc' = [pc EXCEPT ![t] = "run_release"]
    /\ UNCHANGED <<srcValue, srcHandlers, ownSubs, _cache, _readback,
                   _has_subscribed, _lock, _update_only_on_change, latest,
                   fullGet>>

\* _run_sub_value: leaving the with block
run_release(t) ==
    /\ UNCHANGED aggOthers
    /\ pc[t] = "run_release"
    /\ _lock' = Release(_lock)
    /\ pc' = [pc EXCEPT ![t] = "idle"]
    /\ local' = [local EXCEPT ![t] = IdleLocal]
    /\ UNCHANGED <<srcValue, srcHandlers, ownSubs, _cache, _readback,
                   _has_subscribed, _update_only_on_change, latest, fullGet>>

\* faulty variant of put: the value becomes the readback
put_SetsReadback(t, v) ==
    /\ UNCHANGED aggOthers
    /\ t \in UserThreads
    /\ pc[t] = "idle"
    /\ _readback' = v
    /\ pc' = [pc EXCEPT ![t] = "put_raised"]
    /\ UNCHANGED <<srcValue, srcHandlers, ownSubs, _cache, _has_subscribed,
                   _lock, _update_only_on_change, local, latest, fullGet>>

\* put: raise NotImplementedError
put(t, v) ==
    /\ UNCHANGED aggOthers
    /\ t \in UserThreads
    /\ pc[t] = "idle"
    /\ pc' = [pc EXCEPT ![t] = "put_raised"]
    /\ UNCHANGED <<srcValue, srcHandlers, ownSubs, _cache, _readback,
                   _has_subscribed, _lock, _update_only_on_change, local,
                   latest, fullGet>>

\* put: the NotImplementedError reaches the caller
put_raised(t) ==
    /\ UNCHANGED aggOthers
    /\ pc[t] = "put_raised"
    /\ pc' = [pc EXCEPT ![t] = "idle"]
    /\ UNCHANGED <<srcValue, srcHandlers, ownSubs, _cache, _readback,
                   _has_subscribed, _lock, _update_only_on_change, local,
                   latest, fullGet>>

AggNext ==
    \/ \E s \in Sources, v \in Values, H \in SUBSET HandlerThreads :
          SourceChange(s, v, H)
    \/ \E t \in Threads, et \in EventTypes : subscribe(t, et)
    \/ \E t \in Threads : subscribe_sources(t)
    \/ \E t \in Threads : subscribe_return(t)
    \/ \E t \in Threads : get(t)
    \/ \E t \in Threads : get_acquire(t)
    \/ \E t \in Threads : get_read(t)
    \/ \E t \in Threads : get_update(t)
    \/ \E t \in Threads : get_release(t)
    \/ \E t \in Threads : _run_sub_value(t)
    \/ \E t \in Threads : _insert_value(t)
    \/ \E t \in Threads : _update_state(t)
    \/ \E t \in Threads : run_emit(t)
    \/ \E t \in Threads : run_release(t)
    \/ \E t \in Threads, v \in Values : put(t, v)
    \/ \E t \in Threads : put_raised(t)

---------------------------------------------------------------------------
(***************************************************************************)
(* AvgSignal                                                               *)
(***************************************************************************)
AvgThreads == {"init", "cb", "user"}
CallbackThreads == {"init", "cb"}
NaN == <<>>
Sizes == 0..MaxAvg

\* the result of a mean: the sum and the number of the values averaged
Mean(sum, n) == [sum |-> sum, n |-> n]
MeanEq(a, b) == a.n > 0 /\ b.n > 0 /\ a.sum * b.n = b.sum * a.n

RECURSIVE SlotSum(_)
SlotSum(buf) ==
    IF buf = <<>> THEN 0
    ELSE (IF Head(buf) = NaN THEN 0 ELSE Head(buf)[1]) + SlotSum(Tail(buf))

RECURSIVE SlotCount(_)
SlotCount(buf) ==
    IF buf = <<>> THEN 0
    ELSE (IF Head(buf) = NaN THEN 0 ELSE 1) + SlotCount(Tail(buf))

\* faulty variant of nanmean: nan slots are counted (np.mean with nan read as 0)
nanmean_CountAll(buf) == Mean(SlotSum(buf), Len(buf))

\* np.nanmean(self.values)
nanmean(buf) == Mean(SlotSum(buf), SlotCount(buf))

\* np.empty(avg) filled with nan
EmptyBuffer(n) == [i \in 1..n |-> NaN]

\* faulty variant of NextIndex: the index does not wrap around
NextIndex_NoWrap(i, len) == i + 1

\* (self.index + 1) % len(self.values)
NextIndex(i, len) == (i + 1) % len

\* faulty variant of WaitOver: the task does not wait for the connection
WaitOver_NoWait(connected) == TRUE

\* self.raw_sig.wait_for_connection() returns
WaitOver(connected) == connected

AvgLocal == [value |-> 0, ret |-> "idle", avg |-> 0]

AvgStart ==
    /\ rawConnected = FALSE
    /\ rawValue = <<>>
    /\ rawSubscribed = FALSE
    /\ _avg \in Sizes
    /\ index = 0
    /\ values = EmptyBuffer(_avg)
    /\ avgReadback = Mean(0, 1)
    /\ _con = FALSE
    /\ avg_lock = FreeLock
    /\ apc = [t \in AvgThreads |-> IF t = "init" THEN "wait" ELSE "idle"]
    /\ alocal = [t \in AvgThreads |-> AvgLocal]
    /\ hist = <<>>
    /\ dropped = FALSE
    /\ changed = FALSE
    /\ zeroOnly = (_avg = 0)
    /\ everWritten = FALSE
    /\ published = FALSE
    /\ avgError = FALSE

\* the source connects
RawConnect ==
    /\ UNCHANGED avgOthers
    /\ ~rawConnected
    /\ rawConnected' = TRUE
    /\ UNCHANGED <<rawValue, rawSubscribed, _avg, index, values, avgReadback,
                   _con, avg_lock, apc, alocal, hist, dropped, changed,
                   zeroOnly, everWritten, published, avgError>>

\* the source gets a new value; if _update_avg is registered it is called
\* with it in the callback thread
RawUpdate(v) ==
    /\ UNCHANGED avgOthers
    /\ rawConnected
    /\ rawValue' = <<v>>
    /\ IF rawSubscribed
       THEN /\ apc["cb"] = "idle"
            /\ Len(hist) < MaxPushes
            /\ apc' = [apc EXCEPT !["cb"] = "avg_acquire"]
            /\ alocal' = [alocal EXCEPT !["cb"] = [AvgLocal EXCEPT !.value = v]]
       ELSE UNCHANGED <<apc, alocal>>
    /\ UNCHANGED <<rawConnected, rawSubscribed, _avg, index, values,
                   avgReadback, _con, avg_lock, hist, dropped, changed,
                   zeroOnly, everWritten, published, avgError>>

\* _init_subs: self.raw_sig.wait_for_connection()
_init_subs(t) ==
    /\ UNCHANGED avgOthers
    /\ t = "init"
    /\ apc[t] = "wait"
    /\ WaitOver(rawConnected)
    /\ apc' = [apc EXCEPT ![t] = "subscribe"]
    /\ UNCHANGED <<rawConnected, rawValue, rawSubscribed, _avg, index, values,
                   avgReadback, _con, avg_lock, alocal, hist, dropped, changed,
                   zeroOnly, everWritten, published, avgError>>

\* faulty variant of init_subscribe: the connected flag is set before subscribing
init_subscribe_ConFirst(t) ==
    /\ UNCHANGED avgOthers
    /\ apc[t] = "subscribe"
    /\ _con' = TRUE
    /\ apc' = [apc EXCEPT ![t] = "set_con"]
    /\ UNCHANGED <<rawConnected, rawValue, rawSubscribed, _avg, index, values,
                   avgReadback, avg_lock, alocal, hist, dropped, changed,
                   zeroOnly, everWritten, published, avgError>>

\* _init_subs: self.raw_sig.subscribe(self._update_avg); the callback is
\* registered and, run being True, called with the source's current value
init_subscribe(t) ==
    /\ UNCHANGED avgOthers
    /\ apc[t] = "subscribe"
    /\ rawSubscribed' = TRUE
    /\ IF rawValue = <<>>
       THEN /\ apc' = [apc EXCEPT ![t] = "set_con"]
            /\ UNCHANGED alocal
       ELSE /\ apc' = [apc EXCEPT ![t] = "avg_acquire"]
            /\ alocal' = [alocal EXCEPT ![t] = [AvgLocal EXCEPT
                                                   !.value = rawValue[1],
                                                   !.ret = "set_con"]]
    /\ UNCHANGED <<rawConnected, rawValue, _avg, index, values, avgReadback,
                   _con, avg_lock, hist, dropped, changed, zeroOnly,
                   everWritten, published, avgError>>

\* faulty variant of init_set_con: the task ends without setting the flag
init_set_con_Skip(t) ==
    /\ UNCHANGED avgOthers
    /\ apc[t] = "set_con"
    /\ UNCHANGED _con
    /\ apc' = [apc EXCEPT ![t] = "done"]
    /\ alocal' = [alocal EXCEPT ![t] = AvgLocal]
    /\ UNCHANGED <<rawConnected, rawValue, rawSubscribed, _avg, index, values,
                   avgReadback, avg_lock, hist, dropped, changed, zeroOnly,
                   everWritten, published, avgError>>

\* _init_subs: self._con = True
init_set_con(t) ==
    /\ UNCHANGED avgOthers
    /\ apc[t] = "set_con"
    /\ _con' = TRUE
    /\ apc' = [apc EXCEPT ![t] = "done"]
    /\ alocal' = [alocal EXCEPT ![t] = AvgLocal]
    /\ UNCHANGED <<rawConnected, rawValue, rawSubscribed, _avg, index, values,
                   avgReadback, avg_lock, hist, dropped, changed, zeroOnly,
                   everWritten, published, avgError>>

\* _update_avg: with self._lock
_update_avg(t) ==
    /\ UNCHANGED avgOthers
    /\ apc[t] = "avg_acquire"
    /\ CanAcquire(avg_lock, t)
    /\ avg_lock' = Acquire(avg_lock, t)
    /\ apc' = [apc EXCEPT ![t] = "avg_write"]
    /\ UNCHANGED <<rawConnected, rawValue, rawSubscribed, _avg, index, values,
                   avgReadback, _con, alocal, hist, dropped, changed, zeroOnly,
                   everWritten, published, avgError>>

\* _update_avg: self.values[self.index] = value; an index outside the buffer
\* raises IndexError, which leaves the with block and ends the callback
update_avg_write(t) ==
    /\ UNCHANGED avgOthers
    /\ apc[t] = "avg_write"
    /\ IF index < Len(values)
       THEN /\ values' = [values EXCEPT ![index + 1] = <<alocal[t].value>>]
            /\ hist' = Append(hist, alocal[t].value)
            /\ everWritten' = TRUE
            /\ apc' = [apc EXCEPT ![t] = "avg_index"]
            /\ UNCHANGED <<avg_lock, avgError>>
       ELSE /\ avgError' = TRUE
            /\ avg_lock' = Release(avg_lock)
            /\ apc' = [apc EXCEPT ![t] = alocal[t].ret]
            /\ UNCHANGED <<values, hist, everWritten>>
    /\ UNCHANGED <<rawConnected, rawValue, rawSubscribed, _avg, index,
                   avgReadback, _con, alocal, dropped, changed, zeroOnly,
                   published>>

\* _update_avg: self.index = (self.index + 1) % len(self.values)
update_avg_index(t) ==
    /\ UNCHANGED avgOthers
    /\ apc[t] = "avg_index"
    /\ index' = NextIndex(index, Len(values))
    /\ apc' = [apc EXCEPT ![t] = "avg_put"]
    /\ UNCHANGED <<rawConnected, rawValue, rawSubscribed, _avg, values,
                   avgReadback, _con, avg_lock, alocal, hist, dropped, changed,
                   zeroOnly, everWritten, published, avgError>>

\* _update_avg: self.put(np.nanmean(self.values))
update_avg_put(t) ==
    /\ UNCHANGED avgOthers
    /\ apc[t] = "avg_put"
    /\ avgReadback' = nanmean(values)
    /\ published' = TRUE
    /\ apc' = [apc EXCEPT ![t] = "avg_release"]
    /\ UNCHANGED <<rawConnected, rawValue, rawSubscribed, _avg, index, values,
                   _con, avg_lock, alocal, hist, dropped, changed, zeroOnly,
                   everWritten, avgError>>

\* _update_avg: leaving the with block
update_avg_release(t) ==
    /\ UNCHANGED avgOthers
    /\ apc[t] = "avg_release"
    /\ avg_lock' = Release(avg_lock)
    /\ apc' = [apc EXCEPT ![t] = alocal[t].ret]
    /\ UNCHANGED <<rawConnected, rawValue, rawSubscribed, _avg, index, values,
                   avgReadback, _con, alocal, hist, dropped, changed, zeroOnly,
                   everWritten, published, avgError>>

\* averages.setter, called by a user thread with avg = n
averages(t, n) ==
    /\ UNCHANGED avgOthers
    /\ t = "user"
    /\ apc[t] = "idle"
    /\ apc' = [apc EXCEPT ![t] = "set_acquire"]
    /\ alocal' = [alocal EXCEPT ![t] = [AvgLocal EXCEPT !.avg = n]]
    /\ UNCHANGED <<rawConnected, rawValue, rawSubscribed, _avg, index, values,
                   avgReadback, _con, avg_lock, hist, dropped, changed,
                   zeroOnly, everWritten, published, avgError>>

\* averages.setter: with self._lock: self._avg = avg
averages_acquire(t) ==
    /\ UNCHANGED avgOthers
    /\ apc[t] = "set_acquire"
    /\ CanAcquire(avg_lock, t)
    /\ avg_lock' = Acquire(avg_lock, t)
    /\ _avg' = alocal[t].avg
    /\ zeroOnly' = (zeroOnly /\ alocal[t].avg = 0)
    /\ apc' = [apc EXCEPT ![t] = "set_index"]
    /\ UNCHANGED <<rawConnected, rawValue, rawSubscribed, index, values,
                   avgReadback, _con, alocal, hist, dropped, changed,
                   everWritten, published, avgError>>

\* faulty variant of averages_index: the write index is not reset
averages_index_Skip(t) ==
    /\ UNCHANGED avgOthers
    /\ apc[t] = "set_index"
    /\ apc' = [apc EXCEPT ![t] = "set_values"]
    /\ UNCHANGED <<rawConnected, rawValue, rawSubscribed, _avg, index, values,
                   avgReadback, _con, avg_lock, alocal, hist, dropped, changed,
                   zeroOnly, everWritten, published, avgError>>

\* averages.setter: self.index = 0
averages_index(t) ==
    /\ UNCHANGED avgOthers
    /\ apc[t] = "set_index"
    /\ index' = 0
    /\ apc' = [apc EXCEPT ![t] = "set_values"]
    /\ UNCHANGED <<rawConnected, rawValue, rawSubscribed, _avg, values,
                   avgReadback, _con, avg_lock, alocal, hist, dropped, changed,
                   zeroOnly, everWritten, published, avgError>>

\* averages.setter: self.values = np.empty(avg); self.values.fill(np.nan)
averages_values(t) ==
    /\ UNCHANGED avgOthers
    /\ apc[t] = "set_values"
    /\ values' = EmptyBuffer(alocal[t].avg)
    /\ hist' = <<>>
    /\ dropped' = (hist # <<>>)
    /\ changed' = TRUE
    /\ apc' = [apc EXCEPT ![t] = "set_release"]
    /\ UNCHANGED <<rawConnected, rawValue, rawSubscribed, _avg, index,
                   avgReadback, _con, avg_lock, alocal, zeroOnly, everWritten,
                   published, avgError>>

\* averages.setter: leaving the with block
averages_release(t) ==
    /\ UNCHANGED avgOthers
    /\ apc[t] = "set_release"
    /\ avg_lock' = Release(avg_lock)
    /\ apc' = [apc EXCEPT ![t] = "idle"]
    /\ alocal' = [alocal EXCEPT ![t] = AvgLocal]
    /\ UNCHANGED <<rawConnected, rawValue, rawSubscribed, _avg, index, values,
                   avgReadback, _con, hist, dropped, changed, zeroOnly,
                   everWritten, published, avgError>>

AvgNext ==
    \/ RawConnect
    \/ \E v \in Values : RawUpdate(v)
    \/ \E t \in AvgThreads : _init_subs(t)
    \/ \E t \in AvgThreads : init_subscribe(t)
    \/ \E t \in AvgThreads : init_set_con(t)
    \/ \E t \in AvgThreads : _update_avg(t)
    \/ \E t \in AvgThreads : update_avg_write(t)
    \/ \E t \in AvgThreads : update_avg_index(t)
    \/ \E t \in AvgThreads : update_avg_put(t)
    \/ \E t \in AvgThreads : update_avg_release(t)
    \/ \E t \in AvgThreads, n \in Sizes : averages(t, n)
    \/ \E t \in AvgThreads : averages_acquire(t)
    \/ \E t \in AvgThreads : averages_index(t)
    \/ \E t \in AvgThreads : averages_values(t)
    \/ \E t \in AvgThreads : averages_release(t)

---------------------------------------------------------------------------
(***************************************************************************)
(* _OptionalEpicsSignal                                                    *)
(***************************************************************************)
\* "ctor" runs __init__, "ca" runs the callbacks of the EpicsSignal, "user"
\* calls the methods of the constructed proxy
OptThreads == {"ctor", "ca", "user"}
Unset == <<>>

OptLocal == [connected |-> FALSE, ret |-> "idle"]

\* not self._saw_connection and kwargs.get('connected', False)
FirstConnection(saw, connected) == ~saw /\ connected

OptStart ==
    /\ remoteConnected = FALSE
    /\ remoteHasMeta = FALSE
    /\ remoteValue = <<>>
    /\ metaSubscribed = FALSE
    /\ valueSubs = 0
    /\ _saw_connection = Unset
    /\ _metadata = <<>>
    /\ localValue = 0
    /\ opc = [t \in OptThreads |-> IF t = "ctor" THEN "subscribe" ELSE "idle"]
    /\ olocal = [t \in OptThreads |-> OptLocal]
    /\ connectedHandled = FALSE
    /\ sawEver = FALSE
    /\ optError = FALSE
    /\ _epics_signal = TRUE
    /\ selfDestroyed = FALSE
    /\ remoteDestroyed = FALSE
    /\ lastCall = <<>>
    /\ connectedDelivered = FALSE
    /\ valueEvent = <<>>

\* the EpicsSignal reports its connection state: its SUB_META subscriptions
\* run in the callback thread
RemoteMeta(c) ==
    /\ UNCHANGED optOthers
    /\ UNCHANGED valueEvent
    /\ UNCHANGED optUserVars
    /\ ~remoteDestroyed
    /\ connectedDelivered' = (connectedDelivered \/ (metaSubscribed /\ c))
    /\ remoteConnected' = c
    /\ remoteHasMeta' = TRUE
    /\ IF metaSubscribed
       THEN /\ opc["ca"] = "idle"
            /\ opc' = [opc EXCEPT !["ca"] = "meta_update"]
            /\ olocal' = [olocal EXCEPT !["ca"] = [OptLocal EXCEPT !.connected = c]]
       ELSE UNCHANGED <<opc, olocal>>
    /\ UNCHANGED <<remoteValue, metaSubscribed, valueSubs, _saw_connection,
                   _metadata, localValue, connectedHandled, sawEver, optError>>

\* the EpicsSignal gets a new value; _epics_value_update, if registered, does
\* super().put(value=..., force=True)
_epics_value_update(v) ==
    /\ UNCHANGED optOthers
    /\ UNCHANGED <<optUserVars, connectedDelivered>>
    /\ remoteConnected
    /\ ~remoteDestroyed
    /\ remoteValue' = <<v>>
    /\ localValue' = IF valueSubs > 0 THEN v ELSE localValue
    /\ valueEvent' = IF valueSubs > 0 THEN <<v>> ELSE valueEvent
    /\ UNCHANGED <<remoteConnected, remoteHasMeta, metaSubscribed, valueSubs,
                   _saw_connection, _metadata, opc, olocal, connectedHandled,
                   sawEver, optError>>

\* __init__: self._epics_signal.subscribe(self._epics_meta_update, SUB_META);
\* run being True, the callback is called at once if the EpicsSignal has
\* metadata to report
init_subscribe_meta(t) ==
    /\ UNCHANGED optOthers
    /\ UNCHANGED valueEvent
    /\ UNCHANGED optUserVars
    /\ connectedDelivered' = (connectedDelivered \/ (remoteHasMeta /\ remoteConnected))
    /\ t = "ctor"
    /\ opc[t] = "subscribe"
    /\ metaSubscribed' = TRUE
    /\ IF remoteHasMeta
       THEN /\ opc' = [opc EXCEPT ![t] = "meta_update"]
            /\ olocal' = [olocal EXCEPT ![t] = [connected |-> remoteConnected,
                                               ret |-> "assign"]]
       ELSE /\ opc' = [opc EXCEPT ![t] = "assign"]
            /\ UNCHANGED olocal
    /\ UNCHANGED <<remoteConnected, remoteHasMeta, remoteValue, valueSubs,
                   _saw_connection, _metadata, localValue, connectedHandled,
                   sawEver, optError>>

\* __init__: self._saw_connection = False
init_saw_connection(t) ==
    /\ UNCHANGED optOthers
    /\ UNCHANGED valueEvent
    /\ UNCHANGED <<optUserVars, connectedDelivered>>
    /\ opc[t] = "assign"
    /\ _saw_connection' = <<FALSE>>
    /\ opc' = [opc EXCEPT ![t] = "constructed"]
    /\ olocal' = [olocal EXCEPT ![t] = OptLocal]
    /\ UNCHANGED <<remoteConnected, remoteHasMeta, remoteValue, metaSubscribed,
                   valueSubs, _metadata, localValue, connectedHandled, sawEver,
                   optError>>

\* _epics_meta_update: self._metadata.update(**kwargs); self._run_subs(SUB_META)
_epics_meta_update(t) ==
    /\ UNCHANGED optOthers
    /\ UNCHANGED valueEvent
    /\ UNCHANGED <<optUserVars, connectedDelivered>>
    /\ opc[t] = "meta_update"
    /\ _metadata' = <<olocal[t].connected>>
    /\ opc' = [opc EXCEPT ![t] = "meta_check"]
    /\ UNCHANGED <<remoteConnected, remoteHasMeta, remoteValue, metaSubscribed,
                   valueSubs, _saw_connection, localValue, olocal,
                   connectedHandled, sawEver, optError>>

\* _epics_meta_update: if not self._saw_connection and connected; reading the
\* attribute before __init__ has assigned it raises AttributeError, which ends
\* the callback
meta_check(t) ==
    /\ UNCHANGED optOthers
    /\ UNCHANGED valueEvent
    /\ UNCHANGED <<optUserVars, connectedDelivered>>
    /\ opc[t] = "meta_check"
    /\ IF _saw_connection = Unset
       THEN /\ optError' = TRUE
            /\ connectedHandled' = (connectedHandled \/ olocal[t].connected)
            /\ opc' = [opc EXCEPT ![t] = olocal[t].ret]
       ELSE IF FirstConnection(_saw_connection[1], olocal[t].connected)
       THEN /\ opc' = [opc EXCEPT ![t] = "meta_subscribe"]
            /\ UNCHANGED <<optError, connectedHandled>>
       ELSE /\ connectedHandled' = (connectedHandled \/ olocal[t].connected)
            /\ opc' = [opc EXCEPT ![t] = olocal[t].ret]
            /\ UNCHANGED optError
    /\ UNCHANGED <<remoteConnected, remoteHasMeta, remoteValue, metaSubscribed,
                   valueSubs, _saw_connection, _metadata, localValue, olocal,
                   sawEver>>

\* _epics_meta_update: self._epics_signal.subscribe(self._epics_value_update);
\* run being True, the callback is called at once with the current value
meta_subscribe(t) ==
    /\ UNCHANGED optOthers
    /\ UNCHANGED <<optUserVars, connectedDelivered>>
    /\ opc[t] = "meta_subscribe"
    /\ valueSubs' = valueSubs + 1
    /\ localValue' = IF remoteValue = <<>> THEN localValue ELSE remoteValue[1]
    /\ valueEvent' = IF remoteValue = <<>> THEN valueEvent ELSE remoteValue
    /\ opc' = [opc EXCEPT ![t] = "meta_set"]
    /\ UNCHANGED <<remoteConnected, remoteHasMeta, remoteValue, metaSubscribed,
                   _saw_connection, _metadata, olocal, connectedHandled,
                   sawEver, optError>>

\* _epics_meta_update: self._saw_connection = True
meta_set(t) ==
    /\ UNCHANGED optOthers
    /\ UNCHANGED valueEvent
    /\ UNCHANGED <<optUserVars, connectedDelivered>>
    /\ opc[t] = "meta_set"
    /\ _saw_connection' = <<TRUE>>
    /\ sawEver' = TRUE
    /\ connectedHandled' = TRUE
    /\ opc' = [opc EXCEPT ![t] = olocal[t].ret]
    /\ UNCHANGED <<remoteConnected, remoteHasMeta, remoteValue, metaSubscribed,
                   valueSubs, _metadata, localValue, olocal, optError>>

\* should_use_epics_signal: return self._saw_connection
should_use_epics_signal == _saw_connection[1]

\* _proxy_method.method_selector and _proxy_property.getter: the EpicsSignal
\* if should_use_epics_signal() else the Signal itself or the default
method_selector(use) == IF use THEN "remote" ELSE "local"

\* the user can call the proxy: __init__ has returned, destroy was not called
Callable(t) ==
    /\ t = "user"
    /\ opc[t] = "idle"
    /\ opc["ctor"] = "constructed"

\* get = _proxy_method('get')
proxy_get(t) ==
    /\ UNCHANGED optOthers
    /\ UNCHANGED valueEvent
    /\ Callable(t)
    /\ LET owner == method_selector(should_use_epics_signal)
       IN  lastCall' = <<[method |-> "get",
                          owner |-> owner,
                          result |-> IF owner = "remote" THEN remoteValue
                                     ELSE <<localValue>>,
                          fallback |-> <<localValue>>,
                          before |-> ~connectedDelivered,
                          after |-> connectedHandled]>>
    /\ UNCHANGED <<remoteConnected, remoteHasMeta, remoteValue, metaSubscribed,
                   valueSubs, _saw_connection, _metadata, localValue, opc,
                   olocal, connectedHandled, sawEver, optError, _epics_signal,
                   selfDestroyed, remoteDestroyed, connectedDelivered>>

\* connected = _proxy_property('connected', True)
proxy_connected(t) ==
    /\ UNCHANGED optOthers
    /\ UNCHANGED valueEvent
    /\ Callable(t)
    /\ LET owner == method_selector(should_use_epics_signal)
       IN  lastCall' = <<[method |-> "connected",
                          owner |-> owner,
                          result |-> IF owner = "remote" THEN <<remoteConnected>>
                                     ELSE <<TRUE>>,
                          fallback |-> <<TRUE>>,
                          before |-> ~connectedDelivered,
                          after |-> connectedHandled]>>
    /\ UNCHANGED <<remoteConnected, remoteHasMeta, remoteValue, metaSubscribed,
                   valueSubs, _saw_connection, _metadata, localValue, opc,
                   olocal, connectedHandled, sawEver, optError, _epics_signal,
                   selfDestroyed, remoteDestroyed, connectedDelivered>>

\* destroy: super().destroy()
destroy(t) ==
    /\ UNCHANGED optOthers
    /\ UNCHANGED valueEvent
    /\ Callable(t)
    /\ selfDestroyed' = TRUE
    /\ opc' = [opc EXCEPT ![t] = "destroy_remote"]
    /\ UNCHANGED <<remoteConnected, remoteHasMeta, remoteValue, metaSubscribed,
                   valueSubs, _saw_connection, _metadata, localValue, olocal,
                   connectedHandled, sawEver, optError, _epics_signal,
                   remoteDestroyed, lastCall, connectedDelivered>>

\* faulty variant of destroy_remote: the EpicsSignal is not destroyed
destroy_remote_Skip(t) ==
    /\ UNCHANGED optOthers
    /\ UNCHANGED valueEvent
    /\ opc[t] = "destroy_remote"
    /\ opc' = [opc EXCEPT ![t] = "destroy_release"]
    /\ UNCHANGED <<remoteConnected, remoteHasMeta, remoteValue, metaSubscribed,
                   valueSubs, _saw_connection, _metadata, localValue, olocal,
                   connectedHandled, sawEver, optError, _epics_signal,
                   selfDestroyed, remoteDestroyed, lastCall, connectedDelivered>>

\* destroy: self._epics_signal.destroy(); the EpicsSignal drops its callbacks
destroy_remote(t) ==
    /\ UNCHANGED optOthers
    /\ UNCHANGED valueEvent
    /\ opc[t] = "destroy_remote"
    /\ remoteDestroyed' = TRUE
    /\ metaSubscribed' = FALSE
    /\ opc' = [opc EXCEPT ![t] = "destroy_release"]
    /\ UNCHANGED <<remoteConnected, remoteHasMeta, remoteValue, valueSubs,
                   _saw_connection, _metadata, localValue, olocal,
                   connectedHandled, sawEver, optError, _epics_signal,
                   selfDestroyed, lastCall, connectedDelivered>>

\* destroy: self._epics_signal = None
destroy_release(t) ==
    /\ UNCHANGED optOthers
    /\ UNCHANGED valueEvent
    /\ opc[t] = "destroy_release"
    /\ _epics_signal' = FALSE
    /\ opc' = [opc EXCEPT ![t] = "destroyed"]
    /\ UNCHANGED <<remoteConnected, remoteHasMeta, remoteValue, metaSubscribed,
                   valueSubs, _saw_connection, _metadata, localValue, olocal,
                   connectedHandled, sawEver, optError, selfDestroyed,
                   remoteDestroyed, lastCall, connectedDelivered>>

OptNext ==
    \/ \E c \in BOOLEAN : RemoteMeta(c)
    \/ \E v \in Values : _epics_value_update(v)
    \/ \E t \in OptThreads : init_subscribe_meta(t)
    \/ \E t \in OptThreads : init_saw_connection(t)
    \/ \E t \in OptThreads : _epics_meta_update(t)
    \/ \E t \in OptThreads : meta_check(t)
    \/ \E t \in OptThreads : meta_subscribe(t)
    \/ \E t \in OptThreads : meta_set(t)
    \/ \E t \in OptThreads : proxy_get(t)
    \/ \E t \in OptThreads : proxy_connected(t)
    \/ \E t \in OptThreads : destroy(t)
    \/ \E t \in OptThreads : destroy_remote(t)
    \/ \E t \in OptThreads : destroy_release(t)

---------------------------------------------------------------------------
(***************************************************************************)
(* UnitConversionDerivedSignal                                             *)
(***************************************************************************)
\* Numbers are exact fractions <<numerator, denominator>>, denominator > 0,
\* in lowest terms.
Units == {"m", "mm"}
NoUnits == <<>>
UnitValues == 0..MaxUnitVal
Offsets == 0..MaxOffset

Abs(n) == IF n < 0 THEN -n ELSE n

RECURSIVE GCD(_, _)
GCD(a, b) == IF b = 0 THEN a ELSE GCD(b, a % b)

Frac(n, d) ==
    LET g == GCD(Abs(n), d)
    IN  IF n = 0 THEN <<0, 1>> ELSE <<n \div g, d \div g>>

Whole(n) == <<n, 1>>

FracAdd(a, b) == Frac(a[1] * b[2] + b[1] * a[2], a[2] * b[2])

FracSub(a, b) == Frac(a[1] * b[2] - b[1] * a[2], a[2] * b[2])

\* the size of one unit, in millimetres
UnitSize(u) == IF u = "m" THEN 1000 ELSE 1

\* utils.convert_unit(value, original, desired): the value in the desired
\* units, <<>> when it raises because one of the units is not known
convert_unit(value, original, desired) ==
    IF original = NoUnits \/ desired = NoUnits THEN <<>>
    ELSE <<Frac(value[1] * UnitSize(original[1]),
                value[2] * UnitSize(desired[1]))>>

\* the property user_offset
user_offset == _user_offset

\* faulty variant of forward: the offset is added
forward_AddOffset(value) ==
    LET v == IF user_offset # <<>> THEN FracAdd(value, Whole(user_offset[1]))
             ELSE value
    IN  convert_unit(v, <<derived_units>>, original_units)

\* forward: derived signal value -> original signal value
forward(value) ==
    LET v == IF user_offset # <<>> THEN FracSub(value, Whole(user_offset[1]))
             ELSE value
    IN  convert_unit(v, <<derived_units>>, original_units)

\* faulty variant of inverse: the offset is added before the conversion
inverse_OffsetFirst(value) ==
    LET v == IF user_offset # <<>> THEN FracAdd(value, Whole(user_offset[1]))
             ELSE value
    IN  convert_unit(v, original_units, <<derived_units>>)

\* inverse: original signal value -> derived signal value
inverse(value) ==
    LET derived_value == convert_unit(value, original_units, <<derived_units>>)
    IN  IF derived_value = <<>> THEN <<>>
        ELSE IF user_offset # <<>>
             THEN <<FracAdd(derived_value[1], Whole(user_offset[1]))>>
             ELSE derived_value

\* the outcome of a call: its value or the error it raised, and the offset
\* and units it ran with
Outcome(op, arg, result, error, offset) ==
    <<[op |-> op, arg |-> arg, result |-> result, error |-> error,
       offset |-> offset, original |-> original_units,
       derived |-> derived_units]>>

\* the error of a conversion that gave no value
Raised(result) == IF result = <<>> THEN "UnknownUnits" ELSE "none"

\* __init__: the arguments are stored; the source may be in any state
UnitStart ==
    /\ derived_units \in Units
    /\ original_units \in {NoUnits} \cup {<<u>> : u \in Units}
    /\ suppliedUnits = original_units
    /\ _user_offset \in {<<>>} \cup {<<c>> : c \in Offsets}
    /\ derivedConnected \in BOOLEAN
    /\ derivedValue \in {<<>>} \cup {<<Whole(v)>> : v \in UnitValues}
    /\ unitReadback = <<>>
    /\ lastConv = <<>>
    /\ lastMeta = <<>>

\* a call of forward(value)
forward_call(value) ==
    /\ UNCHANGED unitOthers
    /\ lastConv' = Outcome("forward", Whole(value), forward(Whole(value)),
                           Raised(forward(Whole(value))), _user_offset)
    /\ UNCHANGED <<derived_units, original_units, _user_offset,
                   derivedConnected, derivedValue, unitReadback,
                   suppliedUnits, lastMeta>>

\* faulty variant of inverse_call: with unknown units the value is passed on
inverse_call_PassThrough(value) ==
    /\ UNCHANGED unitOthers
    /\ lastConv' = Outcome("inverse", Whole(value),
                           IF original_units = NoUnits THEN <<Whole(value)>>
                           ELSE inverse(Whole(value)),
                           "none", _user_offset)
    /\ UNCHANGED <<derived_units, original_units, _user_offset,
                   derivedConnected, derivedValue, unitReadback,
                   suppliedUnits, lastMeta>>

\* a call of inverse(value)
inverse_call(value) ==
    /\ UNCHANGED unitOthers
    /\ lastConv' = Outcome("inverse", Whole(value), inverse(Whole(value)),
                           Raised(inverse(Whole(value))), _user_offset)
    /\ UNCHANGED <<derived_units, original_units, _user_offset,
                   derivedConnected, derivedValue, unitReadback,
                   suppliedUnits, lastMeta>>

\* inverse(forward(value)): a setpoint written down and read back
round_trip(value) ==
    /\ UNCHANGED unitOthers
    /\ LET down == forward(Whole(value))
           up == IF down = <<>> THEN <<>> ELSE inverse(down[1])
       IN  lastConv' = Outcome("round_trip", Whole(value), up, Raised(up),
                               _user_offset)
    /\ UNCHANGED <<derived_units, original_units, _user_offset,
                   derivedConnected, derivedValue, unitReadback,
                   suppliedUnits, lastMeta>>

\* the source pushes a value: DerivedSignal publishes inverse(value); an error
\* of the conversion ends the callback
DerivedFromUpdate(value) ==
    /\ UNCHANGED unitOthers
    /\ derivedConnected
    /\ derivedValue' = <<Whole(value)>>
    /\ unitReadback' = IF inverse(Whole(value)) = <<>> THEN unitReadback
                       ELSE inverse(Whole(value))
    /\ UNCHANGED <<derived_units, original_units, _user_offset,
                   derivedConnected, suppliedUnits, lastConv, lastMeta>>

\* _recalculate_position: the VALUE event it publishes, <<>> when it is a
\* no-operation or the conversion raises
_recalculate_position ==
    IF ~derivedConnected THEN <<>>
    ELSE IF derivedValue = <<>> THEN <<>>
    ELSE inverse(derivedValue[1])

\* faulty variant of user_offset_setter: the position is not recalculated
user_offset_setter_StoreOnly(offset) ==
    /\ UNCHANGED unitOthers
    /\ _user_offset' = offset
    /\ lastConv' = Outcome("user_offset", offset, <<>>, "none", offset)
    /\ UNCHANGED <<derived_units, original_units, derivedConnected,
                   derivedValue, unitReadback, suppliedUnits, lastMeta>>

\* user_offset.setter: store the offset, then _recalculate_position()
user_offset_setter(offset) ==
    /\ UNCHANGED unitOthers
    /\ _user_offset' = offset
    /\ UNCHANGED <<derived_units, original_units, derivedConnected,
                   derivedValue, suppliedUnits, lastMeta>>
    /\ LET event == _recalculate_position'
           raised == derivedConnected /\ derivedValue # <<>> /\ event = <<>>
       IN  /\ unitReadback' = IF event = <<>> THEN unitReadback ELSE event
           /\ lastConv' = Outcome("user_offset", offset, event,
                                  IF raised THEN "UnknownUnits" ELSE "none",
                                  offset)

\* faulty variant of _derived_metadata_callback: reported units always win
_derived_metadata_callback_Overwrite(connected, has_units, units) ==
    /\ UNCHANGED unitOthers
    /\ derivedConnected' = connected
    /\ original_units' = IF connected /\ has_units THEN units
                         ELSE original_units
    /\ lastMeta' = <<[connected |-> connected, has_units |-> has_units,
                      units |-> units]>>
    /\ UNCHANGED <<derived_units, _user_offset, derivedValue, unitReadback,
                   suppliedUnits, lastConv>>

\* _derived_metadata_callback(connected, **kwargs): has_units is
\* 'units' in kwargs, units is kwargs['units']
_derived_metadata_callback(connected, has_units, units) ==
    /\ UNCHANGED unitOthers
    /\ derivedConnected' = connected
    /\ original_units' = IF connected /\ has_units /\ original_units = NoUnits
                         THEN units ELSE original_units
    /\ lastMeta' = <<[connected |-> connected, has_units |-> has_units,
                      units |-> units]>>
    /\ UNCHANGED <<derived_units, _user_offset, derivedValue, unitReadback,
                   suppliedUnits, lastConv>>

UnitNext ==
    \/ \E v \in UnitValues : forward_call(v)
    \/ \E v \in UnitValues : inverse_call(v)
    \/ \E v \in UnitValues : round_trip(v)
    \/ \E v \in UnitValues : DerivedFromUpdate(v)
    \/ \E c \in {<<>>} \cup {<<o>> : o \in Offsets} : user_offset_setter(c)
    \/ \E c \in BOOLEAN, u \in {NoUnits} \cup {<<n>> : n \in Units} :
           _derived_metadata_callback(c, TRUE, u)
    \/ \E c \in BOOLEAN : _derived_metadata_callback(c, FALSE, NoUnits)

(***************************************************************************)
(* The specifications: one class is live, the others are not constructed.  *)
(***************************************************************************)
AggAbsent ==
    /\ srcValue = <<>>
    /\ srcHandlers = <<>>
    /\ ownSubs = <<>>
    /\ _cache = <<>>
    /\ _readback = 0
    /\ _has_subscribed = FALSE
    /\ _lock = FreeLock
    /\ _update_only_on_change = TRUE
    /\ pc = <<>>
    /\ local = <<>>
    /\ latest = <<>>
    /\ fullGet = FALSE

AvgAbsent ==
    /\ rawConnected = FALSE
    /\ rawValue = <<>>
    /\ rawSubscribed = FALSE
    /\ _avg = 0
    /\ index = 0
    /\ values = <<>>
    /\ avgReadback = Mean(0, 1)
    /\ _con = FALSE
    /\ avg_lock = FreeLock
    /\ apc = <<>>
    /\ alocal = <<>>
    /\ hist = <<>>
    /\ dropped = FALSE
    /\ changed = FALSE
    /\ zeroOnly = FALSE
    /\ everWritten = FALSE
    /\ published = FALSE
    /\ avgError = FALSE

OptAbsent ==
    /\ remoteConnected = FALSE
    /\ remoteHasMeta = FALSE
    /\ remoteValue = <<>>
    /\ metaSubscribed = FALSE
    /\ valueSubs = 0
    /\ _saw_connection = Unset
    /\ _metadata = <<>>
    /\ localValue = 0
    /\ opc = <<>>
    /\ olocal = <<>>
    /\ connectedHandled = FALSE
    /\ sawEver = FALSE
    /\ optError = FALSE
    /\ _epics_signal = FALSE
    /\ selfDestroyed = FALSE
    /\ remoteDestroyed = FALSE
    /\ lastCall = <<>>
    /\ connectedDelivered = FALSE
    /\ valueEvent = <<>>

UnitAbsent ==
    /\ derived_units = "mm"
    /\ original_units = NoUnits
    /\ suppliedUnits = NoUnits
    /\ _user_offset = <<>>
    /\ derivedConnected = FALSE
    /\ derivedValue = <<>>
    /\ unitReadback = <<>>
    /\ lastConv = <<>>
    /\ lastMeta = <<>>

AggInit == AggStart /\ AvgAbsent /\ OptAbsent /\ UnitAbsent
SpecAggregate == AggInit /\ [][AggNext]_vars

AvgInit == AvgStart /\ AggAbsent /\ OptAbsent /\ UnitAbsent
SpecAvg == AvgInit /\ [][AvgNext]_vars

\* Scheduling of the threads: a thread inside _init_subs, _update_avg or the
\* averages setter that can take its next step takes it, and the background
\* task waiting for the RLock gets it if it is free again and again.  Nothing
\* is assumed of the source or of the callers.
AvgFairness ==
    /\ WF_vars(_init_subs("init"))
    /\ WF_vars(init_subscribe("init"))
    /\ WF_vars(init_set_con("init"))
    /\ SF_vars(_update_avg("init"))
    /\ \A t \in CallbackThreads :
           /\ WF_vars(update_avg_write(t))
           /\ WF_vars(update_avg_index(t))
           /\ WF_vars(update_avg_put(t))
           /\ WF_vars(update_avg_release(t))
    /\ WF_vars(averages_index("user"))
    /\ WF_vars(averages_values("user"))
    /\ WF_vars(averages_release("user"))

SpecAvgFair == AvgInit /\ [][AvgNext]_vars /\ AvgFairness

OptInit == OptStart /\ AggAbsent /\ AvgAbsent /\ UnitAbsent
SpecOptional == OptInit /\ [][OptNext]_vars

UnitInit == UnitStart /\ AggAbsent /\ AvgAbsent /\ OptAbsent
SpecUnit == UnitInit /\ [][UnitNext]_vars

---------------------------------------------------------------------------
(***************************************************************************)
(* Properties of AggregateSignal, checked under SpecAggregate.             *)
(***************************************************************************)

\* a thread is between the start and the end of a with self._lock block
InCritical(t) ==
    pc[t] \in {"get_read", "get_update", "get_release", "insert_value",
               "update_state", "run_emit", "run_release"}

\* C1: after a full get(), the readback after every push handled by
\* _run_sub_value equals _calc_readback of the cache that holds, per source,
\* the latest pushed value, or the value of the last get() for a source that
\* was never pushed.
C1_ReadbackAfterPush ==
    \A t \in HandlerThreads :
        (pc[t] \in {"run_emit", "run_release"} /\ local[t].full) =>
            /\ DOMAIN latest = Sources
            /\ _readback = _calc_readback(latest)
            /\ local[t].value = _readback

\* a push handled after a full get() has changed the readback
C1_Witness ==
    \E t \in HandlerThreads :
        /\ pc[t] = "run_emit"
        /\ local[t].full
        /\ local[t].value # local[t].old_value

\* C2: a VALUE subscription made while the cache is empty reads every source
\* exactly once, and when subscribe returns the cache has one entry per source.
C2_SubscribeReadsOnce ==
    \A t \in UserThreads :
        (pc[t] = "sub_return" /\ local[t].event_type = "value"
                              /\ local[t].wasEmpty) =>
            /\ \A s \in Sources : local[t].reads[s] = 1
            /\ DOMAIN _cache = Sources

\* subscribe, called with an empty cache, is about to return
C2_Witness ==
    \E t \in UserThreads :
        /\ pc[t] = "sub_return"
        /\ local[t].event_type = "value"
        /\ local[t].wasEmpty
        /\ DOMAIN _cache = Sources

\* C3: whatever the number of VALUE subscriptions, every source carries exactly
\* one registration of _run_sub_value when subscribe returns, and a later
\* subscription reads no source.
C3_SourcesSubscribedOnce ==
    \A t \in UserThreads :
        (pc[t] = "sub_return" /\ local[t].event_type = "value") =>
            /\ \A s \in Sources : srcHandlers[s] = 1
            /\ (~local[t].wasEmpty => \A s \in Sources : local[t].reads[s] = 0)

\* C4: _run_sub_value emits a VALUE event exactly when the recomputed readback
\* differs from the readback held before the push or _update_only_on_change
\* is off, and the event carries the new readback as value and the prior
\* readback as old_value.
C4_EmitOnChange ==
    \A t \in HandlerThreads :
        pc[t] = "run_release" =>
            /\ (local[t].event # NoEvent) <=>
                   (_readback # local[t].old_value \/ ~_update_only_on_change)
            /\ local[t].event # NoEvent =>
                   local[t].event = <<[value |-> _readback,
                                       old_value |-> local[t].old_value]>>

\* a push that leaves the readback unchanged is emitted because the flag is off
C4_Witness ==
    \E t \in HandlerThreads :
        /\ pc[t] = "run_release"
        /\ ~_update_only_on_change
        /\ local[t].event # NoEvent
        /\ local[t].event[1].value = local[t].event[1].old_value

\* C5: no two threads are inside a with self._lock block of the instance at the
\* same time, and every readback that get() returns or _run_sub_value publishes
\* is _calc_readback of the cache.
C5_LockSerializes ==
    /\ \A t1, t2 \in Threads :
           t1 # t2 => ~(InCritical(t1) /\ InCritical(t2))
    /\ \A t \in Threads :
           pc[t] \in {"get_release", "run_emit"} =>
               _readback = _calc_readback(_cache)
    /\ \A t \in Threads : InCritical(t) => _lock.owner = t

\* a push handler waits for the lock while get() is reading the sources
C5_Witness ==
    \E t1, t2 \in Threads :
        /\ pc[t1] = "get_read"
        /\ pc[t2] = "run_acquire"
        /\ _lock.owner = t1

---------------------------------------------------------------------------
(***************************************************************************)
(* Properties of AvgSignal, checked under SpecAvg.                         *)
(***************************************************************************)

RECURSIVE SeqSum(_)
SeqSum(q) == IF q = <<>> THEN 0 ELSE Head(q) + SeqSum(Tail(q))

\* the arithmetic mean of the last min(Len(h), n) values of h
MeanOfLast(h, n) ==
    LET k == Len(h)
        m == IF k <= n THEN k ELSE n
    IN  Mean(SeqSum(SubSeq(h, k - m + 1, k)), m)

\* C6: with bufferSize N >= 1 never changed since construction, the value
\* reported after k pushes is the arithmetic mean of those k values when
\* k <= N, and of the most recent N values when k > N.
C6_RollingMean ==
    \A t \in CallbackThreads :
        (apc[t] = "avg_release" /\ ~changed) =>
            /\ _avg >= 1
            /\ MeanEq(avgReadback, MeanOfLast(hist, _avg))

\* more pushes than slots: the oldest value has been overwritten
C6_Witness ==
    \E t \in CallbackThreads :
        /\ apc[t] = "avg_release"
        /\ ~changed
        /\ Len(hist) > _avg
        /\ hist[1] # hist[Len(hist)]

\* C7: setting averages leaves a buffer of the new size with every slot nan
\* and index 0, and a value reported after the change is the mean of pushes
\* received after the change only.
C7_ChangeDiscardsHistory ==
    /\ \A t \in AvgThreads :
           apc[t] = "set_release" =>
               /\ _avg = alocal[t].avg
               /\ Len(values) = _avg
               /\ \A i \in 1..Len(values) : values[i] = NaN
               /\ index = 0
    /\ \A t \in CallbackThreads :
           (apc[t] = "avg_release" /\ changed) =>
               MeanEq(avgReadback, MeanOfLast(hist, _avg))

\* the first push after a change that discarded values has been reported
C7_Witness ==
    \E t \in CallbackThreads :
        /\ apc[t] = "avg_release"
        /\ changed
        /\ dropped
        /\ Len(hist) = 1

\* C8 as stated: whenever connected is false, no value has been written to
\* the buffer and no mean has been published.
C8_NoAveragingUntilConnected ==
    ~_con => (~everWritten /\ ~published)

\* C8 amended: until _init_subs has registered _update_avg on the source,
\* connected is false, no value has been written and no mean published;
\* connected is true only after the source connected and the registration.
C8_NoAveragingUntilSubscribed ==
    /\ ~rawSubscribed => (~_con /\ ~everWritten /\ ~published)
    /\ _con => (rawConnected /\ rawSubscribed)

\* the source is connected and has a value, the task has not subscribed yet
C8_Witness ==
    /\ rawConnected
    /\ rawValue # <<>>
    /\ apc["init"] = "subscribe"
    /\ ~rawSubscribed

\* C9 as stated: if bufferSize is 0 or the source never connected, connected
\* is false, nothing was averaged and no operation ended in an error.
C9_ZeroOrUnconnectedStaysPending ==
    (zeroOnly \/ ~rawConnected) =>
        (~_con /\ ~everWritten /\ ~published /\ ~avgError)

\* C9 amended: while the source has not connected, connected is false, nothing
\* is averaged and no operation ends in an error; with bufferSize 0 nothing is
\* averaged either (no buffer write, no published mean), but connected becomes
\* true once the source connects and every push ends in an IndexError.
C9_UnconnectedStaysPending ==
    /\ ~rawConnected => (~_con /\ ~everWritten /\ ~published /\ ~avgError)
    /\ zeroOnly => (~everWritten /\ ~published)
    /\ avgError => rawSubscribed

\* bufferSize 0: the source connected, connected is true, a push has failed
C9_Witness ==
    /\ zeroOnly
    /\ _con
    /\ avgError

---------------------------------------------------------------------------
(***************************************************************************)
(* Properties of _OptionalEpicsSignal, checked under SpecOptional.         *)
(***************************************************************************)

\* C10: once a metadata event reporting connected has been handled,
\* _saw_connection is True, and once True it is never anything else, whatever
\* the order of the steps of __init__ and of the metadata events.
C10_SawConnectionSetAndKept ==
    /\ connectedHandled => _saw_connection = <<TRUE>>
    /\ sawEver => _saw_connection = <<TRUE>>

\* C11: a proxied call made before any connected metadata event reached the
\* callback is served locally (get returns the local value, connected the
\* default True), and a call made after a connected event has been handled is
\* routed to the EpicsSignal, also when it has disconnected since.
C11_Routing ==
    \A i \in 1..Len(lastCall) :
        LET c == lastCall[i]
        IN  /\ c.before => (c.owner = "local" /\ c.result = c.fallback)
            /\ c.after => c.owner = "remote"

\* C12 as stated: the EpicsSignal is torn down first and the proxy itself only
\* then, so the proxy is never destroyed while the EpicsSignal is not.
C12_RemoteDestroyedFirst ==
    selfDestroyed => remoteDestroyed

\* C12 amended: destroy tears down the proxy itself first and the EpicsSignal
\* after it, then releases the handle; when destroy has returned the proxy
\* and the EpicsSignal are destroyed and the handle is released.
C12_DestroyReleasesRemote ==
    /\ remoteDestroyed => selfDestroyed
    /\ ~_epics_signal => remoteDestroyed
    /\ opc["user"] = "destroyed" =>
           (selfDestroyed /\ remoteDestroyed /\ ~_epics_signal)

\* destroy has returned on a proxy that had seen its connection
C12_Witness ==
    /\ opc["user"] = "destroyed"
    /\ _saw_connection = <<TRUE>>
    /\ remoteDestroyed

\* the offset a call ran with, zero when it was unset
OffsetOf(c) == IF c.offset = <<>> THEN 0 ELSE c.offset[1]

\* C13: with the original units known, forward(x) is the conversion of x minus
\* the user offset from derived to original units, and inverse(y) is the
\* conversion of y from original to derived units plus the user offset; an
\* unset offset counts as zero.
C13_ForwardInverseOffset ==
    \A i \in 1..Len(lastConv) :
        LET c == lastConv[i]
            k == OffsetOf(c)
            x == c.arg
            r == c.result[1]
        IN  c.original # NoUnits =>
                /\ c.op = "forward" =>
                      /\ c.result # <<>>
                      /\ r[1] * x[2] * UnitSize(c.original[1])
                             = (x[1] - k * x[2]) * UnitSize(c.derived) * r[2]
                /\ c.op = "inverse" =>
                      /\ c.result # <<>>
                      /\ (r[1] - k * r[2]) * x[2] * UnitSize(c.derived)
                             = x[1] * UnitSize(c.original[1]) * r[2]

\* forward has run with an offset set between different units
C13_Witness ==
    /\ lastConv # <<>>
    /\ lastConv[1].op = "forward"
    /\ lastConv[1].offset = <<1>>
    /\ lastConv[1].original = <<"mm">>
    /\ lastConv[1].derived = "m"
    /\ lastConv[1].arg = Whole(0)
    /\ lastConv[1].result = <<Whole(-1000)>>

\* C14: with the original units known, inverse(forward(x)) = x for every x and
\* every fixed user offset, unset included.
C14_RoundTrip ==
    \A i \in 1..Len(lastConv) :
        LET c == lastConv[i]
        IN  (c.op = "round_trip" /\ c.original # NoUnits) =>
                c.result = <<c.arg>>

\* a round trip has run with an offset set between different units
C14_Witness ==
    /\ lastConv # <<>>
    /\ lastConv[1].op = "round_trip"
    /\ lastConv[1].offset = <<1>>
    /\ lastConv[1].original = <<"m">>
    /\ lastConv[1].derived = "mm"
    /\ lastConv[1].result = <<Whole(1)>>

\* C15: original units supplied at construction are kept; units that are
\* known are never changed by a later step; and the units change only with a
\* connected metadata event that carries units, to the units of that event.
C15_UnitsAdoptedOnce ==
    [][/\ suppliedUnits' # NoUnits => original_units' = suppliedUnits'
       /\ original_units # NoUnits => original_units' = original_units
       /\ original_units' # original_units =>
              lastMeta' = <<[connected |-> TRUE, has_units |-> TRUE,
                             units |-> original_units']>>]_vars

\* units were adopted from the metadata, and a later connected event with
\* other units has been handled
C15_Witness ==
    /\ suppliedUnits = NoUnits
    /\ original_units = <<"m">>
    /\ lastMeta = <<[connected |-> TRUE, has_units |-> TRUE,
                     units |-> <<"mm">>]>>

\* a step of the user_offset setter
OffsetSet == lastConv' # lastConv /\ lastConv'[1].op = "user_offset"

\* C16 as stated: every assignment of user_offset publishes a VALUE event.
C16_OffsetAlwaysRepublishes ==
    \A i \in 1..Len(lastConv) :
        lastConv[i].op = "user_offset" => lastConv[i].result # <<>>

\* C16 amended: the setter stores the offset; when the source is connected,
\* has a value and the original units are known it publishes at once a VALUE
\* event with inverse(source value) under the new offset; when the source is
\* not connected or has no value it publishes nothing.
C16_OffsetRepublishesWhenConnected ==
    [][OffsetSet =>
         /\ _user_offset' = lastConv'[1].arg
         /\ (derivedConnected /\ derivedValue # <<>>
                 /\ original_units # NoUnits) =>
                /\ lastConv'[1].result # <<>>
                /\ lastConv'[1].result = inverse(derivedValue[1])'
                /\ unitReadback' = lastConv'[1].result
         /\ (~derivedConnected \/ derivedValue = <<>>) =>
                /\ lastConv'[1].result = <<>>
                /\ lastConv'[1].error = "none"
                /\ unitReadback' = unitReadback]_vars

\* the setter has published the value of the source under a new offset
C16_Witness ==
    /\ lastConv # <<>>
    /\ lastConv[1].op = "user_offset"
    /\ lastConv[1].arg = <<1>>
    /\ derivedValue = <<Whole(1)>>
    /\ original_units = <<"m">>
    /\ derived_units = "mm"
    /\ lastConv[1].result = <<Whole(1001)>>
    /\ unitReadback = <<Whole(1001)>>

\* C17: forward and inverse called while the original units are unknown fail
\* with UnknownUnits and give no value; a signal constructed without original
\* units exists and fails only at the conversion.
C17_UnknownUnitsAtConversion ==
    \A i \in 1..Len(lastConv) :
        LET c == lastConv[i]
        IN  (c.op \in {"forward", "inverse"} /\ c.original = NoUnits) =>
                (c.result = <<>> /\ c.error = "UnknownUnits")

\* a signal constructed without original units, its inverse has been called
C17_Witness ==
    /\ suppliedUnits = NoUnits
    /\ original_units = NoUnits
    /\ lastConv # <<>>
    /\ lastConv[1].op = "inverse"
    /\ lastConv[1].error = "UnknownUnits"

\* C18: put fails with NotImplementedError for every value, and the failed
\* put changes neither the cache nor the readback nor a source, and emits no
\* event.
C18_PutNotSupported ==
    [][\A t \in Threads :
          (pc[t] # "put_raised" /\ pc'[t] = "put_raised") =>
              /\ pc[t] = "idle"
              /\ _cache' = _cache
              /\ _readback' = _readback
              /\ srcValue' = srcValue
              /\ local' = local
              /\ latest' = latest]_vars

\* put has failed on a signal with a populated cache and a non-zero readback
C18_Witness ==
    \E t \in Threads :
        /\ pc[t] = "put_raised"
        /\ DOMAIN _cache = Sources
        /\ _readback # 0

\* C19: whenever the handler of a source push recomputes the readback, the
\* cache holds an entry for every source.
C19_HandlerSeesFullCache ==
    \A t \in HandlerThreads :
        pc[t] = "update_state" => DOMAIN _cache = Sources

\* C20: the value handler is subscribed to the EpicsSignal at most once, never
\* before a connected metadata event was delivered, and it is subscribed once
\* a connected metadata event has been handled.
C20_ValueSubscribedOnce ==
    /\ valueSubs <= 1
    /\ valueSubs > 0 => connectedDelivered
    /\ connectedHandled => valueSubs = 1

\* the buffer of n slots after the values of h were written to it in turn,
\* starting at slot 0 of an all-empty buffer
Replay(h, n) ==
    [i \in 1..n |->
        LET ks == {k \in 1..Len(h) : (k - 1) % n = i - 1}
        IN  IF ks = {} THEN NaN
            ELSE <<h[CHOOSE k \in ks : \A j \in ks : j <= k]>>]

\* the buffer, its size and the write index agree with the pushes written
\* since the last change of the size, as if each had run alone
BufferAsIfSerial ==
    avg_lock = FreeLock =>
        /\ Len(values) = _avg
        /\ values = Replay(hist, _avg)
        /\ index = (IF _avg = 0 THEN 0 ELSE Len(hist) % _avg)

\* C21 as stated: every push writes at an index within the bounds of the
\* buffer, the index is in 0..N-1 for the current N >= 1, and whenever no push and
\* no size change is in progress the buffer is what the finished pushes and
\* size changes give when run one after the other.
C21_PushAtomicWithSizeChange ==
    /\ \A t \in AvgThreads : apc[t] = "avg_write" => index < Len(values)
    /\ (avg_lock = FreeLock /\ _avg > 0) => index \in 0..(_avg - 1)
    /\ BufferAsIfSerial

\* C21 amended: for a buffer of size N >= 1 the above holds; with N = 0 the
\* index stays 0 and a push finds no slot to write (IndexError).
C21_PushAtomicWithSizeChangeNonEmpty ==
    /\ \A t \in AvgThreads :
           apc[t] = "avg_write" =>
               IF Len(values) > 0 THEN index < Len(values) ELSE index = 0
    /\ (avg_lock = FreeLock /\ _avg > 0) => index \in 0..(_avg - 1)
    /\ (avg_lock = FreeLock /\ _avg = 0) => index = 0
    /\ BufferAsIfSerial

\* a change of the size waits for the lock while a push, which has written
\* its value, holds it
C21_Witness ==
    /\ apc["user"] = "set_acquire"
    /\ apc["cb"] = "avg_index"
    /\ avg_lock.owner = "cb"
    /\ _avg = 2
    /\ alocal["user"].avg = 1
    /\ hist # <<>>

\* C22: before a connected metadata event was delivered no change of the
\* value of the EpicsSignal alters the proxy's value or emits a VALUE event;
\* once a connected event has been handled the proxy's value is the value of
\* the EpicsSignal, and its last VALUE event carries that value.
C22_PushThroughAfterConnection ==
    /\ ~connectedDelivered => (localValue = 0 /\ valueEvent = <<>>)
    /\ (connectedHandled /\ remoteValue # <<>>) =>
           (localValue = remoteValue[1] /\ valueEvent = remoteValue)

\* C23: if the source reports connected then the background task eventually
\* has registered the push subscription and set connected to true; put the
\* other way round, the task stays pending for ever only if the source never
\* connects.
C23_InitTaskCompletes ==
    rawConnected ~> (rawSubscribed /\ _con /\ apc["init"] = "done")

\* the task has run to completion on a signal whose size was changed and
\* which has written a pushed value
C23_Witness ==
    /\ apc["init"] = "done"
    /\ _con
    /\ rawSubscribed
    /\ everWritten
    /\ changed

=============================================================================
